---------------------------- MODULE Spec2Model ----------------------------
(***************************************************************************)
(* Model of data_sanity_check.py: six validation rules over a tabular      *)
(* dataset (a pandas DataFrame) and the orchestrator run_all_checks.       *)
(*                                                                         *)
(* A DataFrame is [columns, rows]: the set of column names and a sequence  *)
(* of rows, each a function from the column names to values.  Arithmetic   *)
(* on float64 values (the `/` of two integer columns, `tolerance * avg`,   *)
(* `total - avg`) is modelled bit-exactly: a float64 is a 53-bit mantissa  *)
(* held as a multi-limb natural and a binary exponent, and every operation *)
(* rounds to nearest, ties to even, as IEEE-754 binary64 does.             *)
(***************************************************************************)
EXTENDS Integers, Sequences, FiniteSets, TLC

VARIABLES
    df,          \* the DataFrame the checks read and mutate in place
    pc,          \* run_all_checks: the statement about to run
    locals,      \* run_all_checks: cols_ok, date_ok, ... once assigned
    all_checks,  \* run_all_checks: the value returned
    stdout,      \* the lines printed so far
    exc,         \* the exception that ended run_all_checks, or "none"
    last,        \* the latest direct call of a check: [check, arg, exc, ret, out]
    rep          \* how many times in a row that check has been called

vars == <<df, pc, locals, all_checks, stdout, exc, last, rep>>

(***************************************************************************)
(* Multi-limb naturals: a sequence of limbs, least significant first, each *)
(* in 0..Base-1, without leading (highest) zero limbs.  <<>> is zero.      *)
(***************************************************************************)
Base == 2 ^ 15

RECURSIVE IntBitLen(_)
IntBitLen(n) == IF n = 0 THEN 0 ELSE 1 + IntBitLen(n \div 2)

LimbBits == IntBitLen(Base) - 1

RECURSIVE Trim(_)
Trim(s) ==
    IF s = <<>> THEN <<>>
    ELSE IF s[Len(s)] = 0 THEN Trim(SubSeq(s, 1, Len(s) - 1))
    ELSE s

RECURSIVE Carry(_, _)
\* Propagates carries through a sequence of non-negative limbs.
Carry(s, c) ==
    IF s = <<>> THEN (IF c = 0 THEN <<>> ELSE <<c % Base>> \o Carry(<<>>, c \div Base))
    ELSE LET v == s[1] + c
         IN  <<v % Base>> \o Carry(Tail(s), v \div Base)

Limb(s, i) == IF i \in 1..Len(s) THEN s[i] ELSE 0

MaxOf(a, b) == IF a >= b THEN a ELSE b

NatOfInt(n) == Trim(Carry(<<n>>, 0))

NatAdd(a, b) ==
    Trim(Carry([i \in 1..MaxOf(Len(a), Len(b)) |-> Limb(a, i) + Limb(b, i)], 0))

NatMulSmall(a, k) == Trim(Carry([i \in 1..Len(a) |-> a[i] * k], 0))

NatShiftLimbs(a, n) == IF a = <<>> THEN <<>> ELSE [i \in 1..n |-> 0] \o a

RECURSIVE NatMul(_, _)
NatMul(a, b) ==
    IF a = <<>> THEN <<>>
    ELSE NatAdd(NatMulSmall(b, a[1]), NatShiftLimbs(NatMul(Tail(a), b), 1))

RECURSIVE NatCmpFrom(_, _, _)
NatCmpFrom(a, b, i) ==
    IF i = 0 THEN 0
    ELSE IF a[i] > b[i] THEN 1
    ELSE IF a[i] < b[i] THEN -1
    ELSE NatCmpFrom(a, b, i - 1)

\* -1, 0, 1 as a < b, a = b, a > b.
NatCmp(a, b) ==
    IF Len(a) > Len(b) THEN 1
    ELSE IF Len(a) < Len(b) THEN -1
    ELSE NatCmpFrom(a, b, Len(a))

RECURSIVE Borrow(_, _, _)
Borrow(a, b, c) ==
    IF a = <<>> THEN <<>>
    ELSE LET v == a[1] - Limb(b, 1) - c
         IN  IF v < 0 THEN <<v + Base>> \o Borrow(Tail(a), IF b = <<>> THEN <<>> ELSE Tail(b), 1)
             ELSE <<v>> \o Borrow(Tail(a), IF b = <<>> THEN <<>> ELSE Tail(b), 0)

\* a - b for a >= b.
NatSub(a, b) == Trim(Borrow(a, b, 0))

NatBitLen(a) == IF a = <<>> THEN 0 ELSE LimbBits * (Len(a) - 1) + IntBitLen(a[Len(a)])

NatShiftLeft(a, s) == NatShiftLimbs(NatMulSmall(a, 2 ^ (s % LimbBits)), s \div LimbBits)

NatIsOdd(a) == a # <<>> /\ a[1] % 2 = 1

\* floor(a / 2^s) and whether any 1 bit was shifted out.
NatShiftRight(a, s) ==
    LET nl   == s \div LimbBits
        nb   == s % LimbBits
        kept == IF nl >= Len(a) THEN <<>> ELSE SubSeq(a, nl + 1, Len(a))
        low  == IF nl >= Len(a) THEN a ELSE SubSeq(a, 1, nl)
        q    == [i \in 1..Len(kept) |->
                    (kept[i] \div (2 ^ nb)) + (Limb(kept, i + 1) % (2 ^ nb)) * (2 ^ (LimbBits - nb))]
    IN  [q    |-> Trim(q),
         lost |-> (\E i \in 1..Len(low) : low[i] # 0) \/ (kept # <<>> /\ kept[1] % (2 ^ nb) # 0)]

(***************************************************************************)
(* float64 values: [k, neg, m, e].  k = "num": the value (-1)^neg * m *    *)
(* 2^e with m = <<>> (zero) or 2^52 <= m < 2^53; k = "inf": an infinity of *)
(* that sign; k = "nan".  Exponent overflow and subnormals do not arise at *)
(* the magnitudes of the dataset (integers below 2^31).                    *)
(***************************************************************************)
\* The significand of a float64 has 53 bits.
MantBits == 53

FZero == [k |-> "num", neg |-> FALSE, m |-> <<>>, e |-> 0]

FNaN == [k |-> "nan", neg |-> FALSE, m |-> <<>>, e |-> 0]

FInf(neg) == [k |-> "inf", neg |-> neg, m |-> <<>>, e |-> 0]

\* The float64 nearest to (-1)^neg * (n + f) * 2^e, where 0 <= f < 1 and
\* sticky says f > 0: round to nearest, ties to even.
FRound(neg, n, sticky, e) ==
    LET L == NatBitLen(n)
    IN  IF n = <<>> THEN FZero
        ELSE IF L <= MantBits
             THEN [k |-> "num", neg |-> neg, m |-> NatShiftLeft(n, MantBits - L), e |-> e - (MantBits - L)]
        ELSE LET sh   == L - MantBits
                 r1   == NatShiftRight(n, sh - 1)
                 q    == NatShiftRight(r1.q, 1).q
                 half == NatIsOdd(r1.q)
                 up   == half /\ (r1.lost \/ sticky \/ NatIsOdd(q))
                 q1   == IF up THEN NatAdd(q, <<1>>) ELSE q
             IN  IF NatBitLen(q1) > MantBits
                 THEN [k |-> "num", neg |-> neg, m |-> NatShiftRight(q1, 1).q, e |-> e + sh + 1]
                 ELSE [k |-> "num", neg |-> neg, m |-> q1, e |-> e + sh]

Abs(n) == IF n < 0 THEN -n ELSE n

\* int64 -> float64 (exact below 2^53).
FloatOfInt(n) == FRound(n < 0, NatOfInt(Abs(n)), FALSE, 0)

RECURSIVE Rems(_, _, _)
\* The remainders of the binary long division of r by b (0 <= r < b):
\* <<r, 2r mod b, 4r mod b, ...>>, k + 1 of them.
Rems(r, b, k) == IF k = 0 THEN <<r>> ELSE <<r>> \o Rems((2 * r) % b, b, k - 1)

RECURSIVE BitsValue(_, _, _)
\* The value of bits[lo..hi], bits[hi] the least significant.
BitsValue(bits, lo, hi) ==
    IF hi < lo THEN 0 ELSE bits[hi] + 2 * BitsValue(bits, lo, hi - 1)

\* floor(a * 2^k / b) for 0 <= a, 0 < b, and the remainder of that division.
DivBits(a, b, k) ==
    LET rems == Rems(a % b, b, k)
        bits == [i \in 1..k |-> (2 * rems[i]) \div b]
        nl   == (k + LimbBits - 1) \div LimbBits
        frac == [j \in 1..nl |->
                    BitsValue(bits, MaxOf(1, k - LimbBits * j + 1), k - LimbBits * (j - 1))]
    IN  [q |-> NatAdd(NatShiftLeft(NatOfInt(a \div b), k), Trim(frac)), r |-> rems[k + 1]]

\* True division of two int64 values, as numpy/pandas do it on integer
\* columns: both become float64 (exact here) and the quotient is rounded
\* once; x/0 is +-inf and 0/0 is nan, without an exception.
FloatDivInt(a, b) ==
    IF b = 0 THEN (IF a = 0 THEN FNaN ELSE FInf(a < 0))
    ELSE IF a = 0 THEN FZero
    ELSE LET aa == Abs(a)
             bb == Abs(b)
             k  == MaxOf(0, MantBits + 3 + IntBitLen(bb) - IntBitLen(aa))
             d  == DivBits(aa, bb, k)
         IN  FRound((a < 0) # (b < 0), d.q, d.r # 0, -k)

FloatMul(x, y) ==
    IF x.k = "nan" \/ y.k = "nan" THEN FNaN
    ELSE IF x.k = "inf" \/ y.k = "inf"
         THEN (IF (x.k = "num" /\ x.m = <<>>) \/ (y.k = "num" /\ y.m = <<>>) THEN FNaN
               ELSE FInf(x.neg # y.neg))
    ELSE FRound(x.neg # y.neg, NatMul(x.m, y.m), FALSE, x.e + y.e)

FloatNeg(x) == [x EXCEPT !.neg = ~x.neg]

FloatAbs(x) == [x EXCEPT !.neg = FALSE]

\* x + y for finite x, y.
FloatAddNum(x, y) ==
    IF x.m = <<>> THEN y
    ELSE IF y.m = <<>> THEN x
    ELSE LET e  == IF x.e <= y.e THEN x.e ELSE y.e
             X  == NatShiftLeft(x.m, x.e - e)
             Y  == NatShiftLeft(y.m, y.e - e)
             c  == NatCmp(X, Y)
         IN  IF x.neg = y.neg THEN FRound(x.neg, NatAdd(X, Y), FALSE, e)
             ELSE IF c = 0 THEN FZero
             ELSE IF c > 0 THEN FRound(x.neg, NatSub(X, Y), FALSE, e)
             ELSE FRound(y.neg, NatSub(Y, X), FALSE, e)

FloatSub(x, y) ==
    IF x.k = "nan" \/ y.k = "nan" THEN FNaN
    ELSE IF x.k = "inf" /\ y.k = "inf" THEN (IF x.neg = y.neg THEN FNaN ELSE x)
    ELSE IF x.k = "inf" THEN x
    ELSE IF y.k = "inf" THEN FloatNeg(y)
    ELSE FloatAddNum(x, FloatNeg(y))

\* -1, 0, 1 for finite or infinite x, y (not nan).
FloatCmp(x, y) ==
    LET sgn(v) == IF v.k = "num" /\ v.m = <<>> THEN 0 ELSE IF v.neg THEN -1 ELSE 1
        mag(u, v) ==   \* compares |u| and |v|, both non-zero
            IF u.k = "inf" THEN (IF v.k = "inf" THEN 0 ELSE 1)
            ELSE IF v.k = "inf" THEN -1
            ELSE IF u.e > v.e THEN 1
            ELSE IF u.e < v.e THEN -1
            ELSE NatCmp(u.m, v.m)
    IN  IF sgn(x) # sgn(y) THEN (IF sgn(x) > sgn(y) THEN 1 ELSE -1)
        ELSE IF sgn(x) = 0 THEN 0
        ELSE sgn(x) * mag(x, y)

\* <= that lets nan through.
FloatLE_nan(x, y) == x.k = "nan" \/ y.k = "nan" \/ FloatCmp(x, y) <= 0

\* The comparisons of float64: every comparison with nan is false.
FloatGT(x, y) == x.k # "nan" /\ y.k # "nan" /\ FloatCmp(x, y) > 0

FloatLE(x, y) == x.k # "nan" /\ y.k # "nan" /\ FloatCmp(x, y) <= 0


(***************************************************************************)
(* The DataFrame.                                                          *)
(***************************************************************************)
Series(d, col) == [i \in 1..Len(d.rows) |-> d.rows[i][col]]

\* df[col] = series: the column is replaced, or added when new.
SetColumn(d, col, series) ==
    [columns |-> d.columns \cup {col},
     rows    |-> [i \in 1..Len(d.rows) |->
                    [c \in d.columns \cup {col} |-> IF c = col THEN series[i] ELSE d.rows[i][c]]]]

RECURSIVE SeriesSum(_)
SeriesSum(s) == IF s = <<>> THEN 0 ELSE s[1] + SeriesSum(Tail(s))

\* between with the ends left out.
between_exclusive(x, lo, hi) == lo < x /\ x < hi

\* Series.between(lo, hi) of one integer value: both ends included.
between(x, lo, hi) == lo <= x /\ x <= hi

\* between of a float64 with the ends left out.
fbetween_exclusive(x, lo, hi) == FloatGT(x, lo) /\ FloatGT(hi, x)

\* Series.between(lo, hi) of one float64 value: nan is in no interval.
fbetween(x, lo, hi) == FloatLE(lo, x) /\ FloatLE(x, hi)

\* What a call of a check yields: the exception raised (or "none"), the
\* value returned, the lines printed and the DataFrame afterwards.
Returned(ret, out, d) == [exc |-> "none", ret |-> ret, out |-> out, df |-> d]

\* An exception leaves the function before anything is printed or stored.
Raised(kind, d) == [exc |-> kind, ret |-> FALSE, out |-> <<>>, df |-> d]

(***************************************************************************)
(* Dates.  A value of the date column is <<"str", y, m, d>>, the text      *)
(* "y-m-d" as read from the file, or <<"ts", n>>, a Timestamp at midnight  *)
(* of day n of the proleptic Gregorian calendar (day 0 = 1970-01-01).      *)
(***************************************************************************)
IsLeap(y) == (y % 4 = 0 /\ y % 100 # 0) \/ y % 400 = 0

DaysInMonth(y, m) ==
    IF m = 2 THEN (IF IsLeap(y) THEN 29 ELSE 28)
    ELSE IF m \in {4, 6, 9, 11} THEN 30 ELSE 31

\* Days from 1970-01-01 to y-m-d, for y >= 1970.
DaysFromCivil(y, m, d) ==
    LET yy  == IF m <= 2 THEN y - 1 ELSE y
        era == yy \div 400
        yoe == yy - era * 400
        mp  == IF m > 2 THEN m - 3 ELSE m + 9
        doy == (153 * mp + 2) \div 5 + d - 1
        doe == yoe * 365 + yoe \div 4 - yoe \div 100 + doy
    IN  era * 146097 + doe - 719468

Parseable(v) ==
    v[1] = "ts" \/ (v[3] \in 1..12 /\ v[4] \in 1..DaysInMonth(v[2], v[3]))

\* pd.to_datetime of one value: text is parsed, a Timestamp is kept.
to_datetime(v) == IF v[1] = "ts" THEN v ELSE <<"ts", DaysFromCivil(v[2], v[3], v[4])>>

SeriesMin(s) == CHOOSE x \in {s[i] : i \in 1..Len(s)} : \A i \in 1..Len(s) : x[2] <= s[i][2]

SeriesMax(s) == CHOOSE x \in {s[i] : i \in 1..Len(s)} : \A i \in 1..Len(s) : x[2] >= s[i][2]

\* The days counted with both ends.
TimedeltaDays_inclusive(a, b) == a[2] - b[2] + 1

\* (a - b).days
TimedeltaDays(a, b) == a[2] - b[2]


(***************************************************************************)
(* The six checks.  Reading a column the DataFrame lacks, df[col], raises  *)
(* KeyError.                                                               *)
(***************************************************************************)
\* The columns the docstring of check_required_columns lists.
expected_columns_docstring ==
    << "date", "atom_leased", "photon_leased", "spin_leased", "workloads_executed", "total_daily_cost" >>

expected_columns ==
    << "date", "new_blocks_atom", "new_blocks_photon", "new_blocks_spin",
       "workloads_older_blocks", "workloads_new_blocks", "total_daily_cost" >>

check_required_columns(d) ==
    LET missing == SelectSeq(expected_columns, LAMBDA col : col \notin d.columns)
    IN  IF missing # <<>>
        THEN Returned(FALSE, << <<"Missing required columns:", missing>> >>, d)
        ELSE Returned(TRUE, << <<"All required columns are present.">> >>, d)

check_date_range_six_months(d) ==
    IF "date" \notin d.columns THEN Raised("KeyError", d)
    ELSE IF \E i \in 1..Len(d.rows) : ~Parseable(d.rows[i]["date"]) THEN Raised("ParseError", d)
    ELSE LET d1       == SetColumn(d, "date", [i \in 1..Len(d.rows) |-> to_datetime(d.rows[i]["date"])])
             min_date == SeriesMin(Series(d1, "date"))
             max_date == SeriesMax(Series(d1, "date"))
             num_days == TimedeltaDays(max_date, min_date)
         IN  IF num_days < 170 \/ num_days > 190
             THEN Returned(FALSE, << <<"Date range is not approximately 6 months.", num_days>> >>, d1)
             ELSE Returned(TRUE, << <<"Date range is approximately 6 months.", num_days>> >>, d1)

\* The total added to the column already stored by an earlier call.
check_blocks_leased_range_accumulate(d) ==
    IF ~({"new_blocks_atom", "new_blocks_photon", "new_blocks_spin"} \subseteq d.columns)
    THEN Raised("KeyError", d)
    ELSE LET d1 == SetColumn(d, "total_blocks_leased",
                       [i \in 1..Len(d.rows) |->
                           (IF "total_blocks_leased" \in d.columns
                            THEN d.rows[i]["total_blocks_leased"] ELSE 0)
                               + d.rows[i]["new_blocks_atom"] + d.rows[i]["new_blocks_photon"]
                               + d.rows[i]["new_blocks_spin"]])
         IN  IF ~(\A i \in 1..Len(d1.rows) : between(d1.rows[i]["total_blocks_leased"], 1000, 10000))
             THEN Returned(FALSE, << <<"Some days have total blocks leased outside the expected range (1,000 - 10,000).">> >>, d1)
             ELSE Returned(TRUE, << <<"All days have total blocks leased within the expected range.">> >>, d1)

check_blocks_leased_range(d) ==
    IF ~({"new_blocks_atom", "new_blocks_photon", "new_blocks_spin"} \subseteq d.columns)
    THEN Raised("KeyError", d)
    ELSE LET d1 == SetColumn(d, "total_blocks_leased",
                       [i \in 1..Len(d.rows) |->
                           d.rows[i]["new_blocks_atom"] + d.rows[i]["new_blocks_photon"]
                               + d.rows[i]["new_blocks_spin"]])
         IN  IF ~(\A i \in 1..Len(d1.rows) : between(d1.rows[i]["total_blocks_leased"], 1000, 10000))
             THEN Returned(FALSE, << <<"Some days have total blocks leased outside the expected range (1,000 - 10,000).">> >>, d1)
             ELSE Returned(TRUE, << <<"All days have total blocks leased within the expected range.">> >>, d1)

\* .any() in place of .all().
check_workload_range_any(d) ==
    IF "total_workloads" \notin d.columns THEN Raised("KeyError", d)
    ELSE IF ~(\E i \in 1..Len(d.rows) : between(d.rows[i]["total_workloads"], 1000000, 50000000))
         THEN Returned(FALSE, << <<"Some days have workloads executed outside the expected range (1M - 50M).">> >>, d)
         ELSE Returned(TRUE, << <<"All days have workloads executed within the expected range.">> >>, d)

check_workload_range(d) ==
    IF "total_workloads" \notin d.columns THEN Raised("KeyError", d)
    ELSE IF ~(\A i \in 1..Len(d.rows) : between(d.rows[i]["total_workloads"], 1000000, 50000000))
         THEN Returned(FALSE, << <<"Some days have workloads executed outside the expected range (1M - 50M).">> >>, d)
         ELSE Returned(TRUE, << <<"All days have workloads executed within the expected range.">> >>, d)

\* The default of the parameter tolerance: the literal 0.05, which is the
\* float64 nearest to 5/100.
default_tolerance == FloatDivInt(5, 100)

check_equal_distribution(d, tolerance) ==
    IF ~({"new_blocks_atom", "new_blocks_photon", "new_blocks_spin"} \subseteq d.columns)
    THEN Raised("KeyError", d)
    ELSE LET total_atom   == SeriesSum(Series(d, "new_blocks_atom"))
             total_photon == SeriesSum(Series(d, "new_blocks_photon"))
             total_spin   == SeriesSum(Series(d, "new_blocks_spin"))
             avg          == FloatDivInt(total_atom + total_photon + total_spin, 3)
             diff_atom    == FloatAbs(FloatSub(FloatOfInt(total_atom), avg))
             diff_photon  == FloatAbs(FloatSub(FloatOfInt(total_photon), avg))
             diff_spin    == FloatAbs(FloatSub(FloatOfInt(total_spin), avg))
             limit        == FloatMul(tolerance, avg)
         IN  IF FloatGT(diff_atom, limit) \/ FloatGT(diff_photon, limit) \/ FloatGT(diff_spin, limit)
             THEN Returned(FALSE,
                      << <<"Cumulative distribution among Atom, Photon, and Spin is not equal within tolerance.">>,
                         <<"Atom, Photon, Spin, Expected average:", total_atom, total_photon, total_spin, avg>> >>, d)
             ELSE Returned(TRUE, << <<"Cumulative QPU block distribution among Atom, Photon, and Spin is equal within tolerance.">> >>, d)

required_cols == << "total_workloads", "workloads_new_blocks", "workloads_older_blocks" >>

check_workload_assignment(d) ==
    LET missing == SelectSeq(required_cols, LAMBDA col : col \notin d.columns)
        n       == Len(d.rows)
        ratio_today == [i \in 1..n |->
                           FloatDivInt(d.rows[i]["workloads_new_blocks"], d.rows[i]["total_workloads"])]
        ratio_older == [i \in 1..n |->
                           FloatDivInt(d.rows[i]["workloads_older_blocks"], d.rows[i]["total_workloads"])]
    IN  IF missing # <<>>
        THEN Returned(FALSE, << <<"Missing required columns for workload assignment check:", missing>> >>, d)
        ELSE IF ~(\A i \in 1..n : d.rows[i]["workloads_new_blocks"] + d.rows[i]["workloads_older_blocks"]
                                      = d.rows[i]["total_workloads"])
        THEN Returned(FALSE, << <<"Mismatch: The sum of workloads_today and workloads_older does not equal workloads_executed on some days.">> >>, d)
        ELSE IF ~(\A i \in 1..n : fbetween(ratio_today[i], FloatDivInt(50, 100), FloatDivInt(60, 100)))
        THEN Returned(FALSE, << <<"Some days do not meet the constraint: 50-60% of workloads assigned to today's leased blocks.">> >>, d)
        ELSE IF ~(\A i \in 1..n : fbetween(ratio_older[i], FloatDivInt(40, 100), FloatDivInt(50, 100)))
        THEN Returned(FALSE, << <<"Some days do not meet the constraint: 40-50% of workloads assigned to older pool blocks.">> >>, d)
        ELSE Returned(TRUE, << <<"All days meet the workload assignment constraints (50-60% for today's and 40-50% for older pool).">> >>, d)


(***************************************************************************)
(* run_all_checks, one action per statement after the file is read.        *)
(***************************************************************************)
\* The conjunction without its last operand.
AllChecks_four(l) == l["cols_ok"] /\ l["date_ok"] /\ l["blocks_ok"] /\ l["workload_ok"]

\* cols_ok and date_ok and blocks_ok and workload_ok and distribution_ok
AllChecks(l) ==
    l["cols_ok"] /\ l["date_ok"] /\ l["blocks_ok"] /\ l["workload_ok"] /\ l["distribution_ok"]

\* print(heading); var = check(df): the next statement is `next`, unless the
\* check raises, which ends run_all_checks.
Statement(label, heading, var, r, next) ==
    /\ pc = label
    /\ stdout' = stdout \o << <<heading>> >> \o r.out
    /\ df' = r.df
    /\ IF r.exc = "none"
       THEN /\ locals' = (var :> r.ret) @@ locals
            /\ pc' = next
            /\ exc' = exc
       ELSE /\ locals' = locals
            /\ pc' = "raised"
            /\ exc' = r.exc
    /\ UNCHANGED <<all_checks, last, rep>>

RunRequiredColumns ==
    Statement("cols_ok", "Checking required columns...", "cols_ok",
              check_required_columns(df), "date_ok")

RunDateRange ==
    Statement("date_ok", "Checking date range...", "date_ok",
              check_date_range_six_months(df), "blocks_ok")

RunBlocksLeased ==
    Statement("blocks_ok", "Checking blocks leased per day...", "blocks_ok",
              check_blocks_leased_range(df), "workload_ok")

RunWorkloadRange ==
    Statement("workload_ok", "Checking workloads executed per day...", "workload_ok",
              check_workload_range(df), "distribution_ok")

RunEqualDistribution ==
    Statement("distribution_ok", "Checking equal distribution of leased blocks...", "distribution_ok",
              check_equal_distribution(df, default_tolerance), "all_checks")

Aggregate ==
    /\ pc = "all_checks"
    /\ all_checks' = AllChecks(locals)
    /\ stdout' = stdout \o << <<IF AllChecks(locals) THEN "All checks passed." ELSE "Some checks failed.">> >>
    /\ pc' = "return"
    /\ UNCHANGED <<df, locals, exc, last, rep>>

Next ==
    \/ RunRequiredColumns
    \/ RunDateRange
    \/ RunBlocksLeased
    \/ RunWorkloadRange
    \/ RunEqualDistribution
    \/ Aggregate

(***************************************************************************)
(* Direct calls of the checks on the DataFrame, in any order.              *)
(***************************************************************************)
MaxRepeat == 2

Call(name, r) ==
    /\ last.check = name => rep < MaxRepeat
    /\ last' = [check |-> name, arg |-> df, exc |-> r.exc, ret |-> r.ret, out |-> r.out]
    /\ rep' = IF last.check = name THEN rep + 1 ELSE 1
    /\ df' = r.df
    /\ UNCHANGED <<pc, locals, all_checks, stdout, exc>>

CallRequiredColumns == Call("check_required_columns", check_required_columns(df))

CallDateRange == Call("check_date_range_six_months", check_date_range_six_months(df))

CallBlocksLeased == Call("check_blocks_leased_range", check_blocks_leased_range(df))

CallWorkloadRange == Call("check_workload_range", check_workload_range(df))

CallEqualDistribution ==
    Call("check_equal_distribution", check_equal_distribution(df, default_tolerance))

CallWorkloadAssignment == Call("check_workload_assignment", check_workload_assignment(df))

NextCalls ==
    \/ CallRequiredColumns
    \/ CallDateRange
    \/ CallBlocksLeased
    \/ CallWorkloadRange
    \/ CallEqualDistribution
    \/ CallWorkloadAssignment

(***************************************************************************)
(* The datasets read from the file.                                        *)
(***************************************************************************)
MaxRows == 2

AllColumns ==
    { "date", "new_blocks_atom", "new_blocks_photon", "new_blocks_spin", "workloads_older_blocks",
      "workloads_new_blocks", "total_daily_cost", "total_workloads" }

BaseRow ==
    [ date |-> <<"str", 2024, 1, 1>>,
      new_blocks_atom |-> 1000, new_blocks_photon |-> 1000, new_blocks_spin |-> 1000,
      workloads_older_blocks |-> 450000, workloads_new_blocks |-> 550000,
      total_daily_cost |-> 100, total_workloads |-> 1000000 ]

\* 2024-01-01 and the days 169, 170, 180, 190 and 191 days after it; a text
\* that is no date.
DateValues ==
    { <<"str", 2024, 1, 1>>, <<"str", 2024, 6, 18>>, <<"str", 2024, 6, 19>>, <<"str", 2024, 6, 29>>,
      <<"str", 2024, 7, 9>>, <<"str", 2024, 7, 10>>, <<"str", 2024, 2, 30>> }

\* <<atom, photon, spin>>
BlockValues ==
    { <<400, 400, 300>>, <<333, 333, 333>>, <<334, 333, 333>>, <<3334, 3333, 3333>>, <<3334, 3334, 3333>>,
      <<1000, 1000, 1000>>, <<1200, 900, 900>>, <<0, 0, 0>>, <<49, 45, 46>>, <<1050, 975, 975>> }

\* <<total_workloads, workloads_new_blocks, workloads_older_blocks>>
WorkloadValues ==
    { <<1000, 550, 450>>, <<1000, 650, 350>>, <<1000, 500, 500>>, <<1000, 600, 400>>, <<1000, 601, 399>>,
      <<1000, 499, 501>>, <<1000, 550, 400>>, <<5, 3, 2>>, <<0, 0, 0>>, <<0, 1, 0>>, <<0, 5, -5>>,
      <<1000000, 550000, 450000>>, <<50000000, 30000000, 20000000>>,
      <<999999, 550000, 449999>>, <<50000001, 25000001, 25000000>> }

DateRows == { [BaseRow EXCEPT !["date"] = v] : v \in DateValues }

BlockRows ==
    { [BaseRow EXCEPT !["new_blocks_atom"] = v[1], !["new_blocks_photon"] = v[2],
                      !["new_blocks_spin"] = v[3]] : v \in BlockValues }

WorkloadRows ==
    { [BaseRow EXCEPT !["total_workloads"] = v[1], !["workloads_new_blocks"] = v[2],
                      !["workloads_older_blocks"] = v[3]] : v \in WorkloadValues }

\* A few rows that differ in every column group, for the runs that call
\* every check.
SampleRows ==
    { BaseRow,
      [BaseRow EXCEPT !["date"] = <<"str", 2024, 6, 29>>, !["new_blocks_atom"] = 1200,
                      !["new_blocks_photon"] = 900, !["new_blocks_spin"] = 900],
      [BaseRow EXCEPT !["date"] = <<"str", 2024, 2, 30>>, !["total_workloads"] = 1000,
                      !["workloads_new_blocks"] = 650, !["workloads_older_blocks"] = 350],
      [BaseRow EXCEPT !["new_blocks_atom"] = 333, !["new_blocks_photon"] = 333,
                      !["new_blocks_spin"] = 333, !["total_workloads"] = 0,
                      !["workloads_new_blocks"] = 0, !["workloads_older_blocks"] = 0] }

SeqsUpTo(S, n) == UNION { [1..k -> S] : k \in 1..n }

\* The DataFrame read from a file with these columns and these rows.
Frame(cols, rows) ==
    [columns |-> cols, rows |-> [i \in 1..Len(rows) |-> [c \in cols |-> rows[i][c]]]]

FramesOf(R) == { Frame(AllColumns, rs) : rs \in SeqsUpTo(R, MaxRows) }

DateDatasets == FramesOf(DateRows)

BlockDatasets == FramesOf(BlockRows)

WorkloadDatasets == FramesOf(WorkloadRows)

ColumnDatasets == { Frame(cols, <<BaseRow>>) : cols \in SUBSET AllColumns }

SampleDatasets ==
    { Frame(cols, rs) : cols \in {AllColumns} \cup { AllColumns \ {c} : c \in AllColumns },
                        rs \in SeqsUpTo(SampleRows, MaxRows) }

Datasets ==
    DateDatasets \cup BlockDatasets \cup WorkloadDatasets \cup ColumnDatasets \cup SampleDatasets

NoCall ==
    [check |-> "none", arg |-> Frame({}, <<>>), exc |-> "none", ret |-> FALSE, out |-> <<>>]

InitOn(D) ==
    /\ df \in D
    /\ pc = "cols_ok"
    /\ locals = [v \in {} |-> FALSE]
    /\ all_checks = FALSE
    /\ stdout = <<>>
    /\ exc = "none"
    /\ last = NoCall
    /\ rep = 0

Init == InitOn(Datasets)

\* run_all_checks on a dataset read from the file.
Spec == Init /\ [][Next]_vars

\* Each check called directly, on the datasets that vary what it reads.
SpecColumns == InitOn(ColumnDatasets) /\ [][CallRequiredColumns]_vars

SpecDates == InitOn(DateDatasets) /\ [][CallDateRange]_vars

SpecBlocks == InitOn(BlockDatasets) /\ [][CallBlocksLeased]_vars

SpecWorkloads == InitOn(WorkloadDatasets) /\ [][CallWorkloadRange]_vars

SpecDistribution == InitOn(BlockDatasets) /\ [][CallEqualDistribution]_vars

SpecAssignment == InitOn(WorkloadDatasets \cup ColumnDatasets) /\ [][CallWorkloadAssignment]_vars

\* Any sequence of direct calls.
SpecCalls == InitOn(SampleDatasets) /\ [][NextCalls]_vars


(***************************************************************************)
(* Properties.                                                             *)
(***************************************************************************)
Rows(d) == { d.rows[i] : i \in 1..Len(d.rows) }

CheckHeadings ==
    << <<"Checking required columns...">>, <<"Checking date range...">>,
       <<"Checking blocks leased per day...">>, <<"Checking workloads executed per day...">>,
       <<"Checking equal distribution of leased blocks...">> >>

Headings(out) == SelectSeq(out, LAMBDA line : \E i \in 1..Len(CheckHeadings) : line = CheckHeadings[i])

C2_OnlyUnparseableDateIsFatal == pc = "raised" => exc = "ParseError"

\* a/b <= n/t <= c/d, for t > 0 and b, d > 0, in exact arithmetic.
RatioWithin(n, t, a, b, c, d) == a * t <= b * n /\ d * n <= c * t

RecordAssigned(r) ==
    /\ r["workloads_new_blocks"] + r["workloads_older_blocks"] = r["total_workloads"]
    /\ r["total_workloads"] > 0
    /\ RatioWithin(r["workloads_new_blocks"], r["total_workloads"], 1, 2, 3, 5)
    /\ RatioWithin(r["workloads_older_blocks"], r["total_workloads"], 2, 5, 1, 2)

HasAssignmentColumns(d) ==
    {"total_workloads", "workloads_new_blocks", "workloads_older_blocks"} \subseteq d.columns

\* C3: on a dataset with the three workload columns, check_workload_assignment
\* returns true exactly when every record has new + older = total, new/total
\* in [0.50, 0.60] and older/total in [0.40, 0.50].
C3_AssignmentIffEveryRecord ==
    (last.check = "check_workload_assignment" /\ HasAssignmentColumns(last.arg)) =>
        /\ last.exc = "none"
        /\ last.ret = (\A r \in Rows(last.arg) : RecordAssigned(r))

\* The check has failed a dataset holding 1000 = 550 + 450 and 1000 = 650 + 350.
C3_Witness ==
    /\ last.check = "check_workload_assignment"
    /\ HasAssignmentColumns(last.arg)
    /\ ~last.ret
    /\ \E r \in Rows(last.arg) : r["total_workloads"] = 1000 /\ r["workloads_new_blocks"] = 550
    /\ \E r \in Rows(last.arg) : r["total_workloads"] = 1000 /\ r["workloads_new_blocks"] = 650
                                      /\ r["workloads_older_blocks"] = 350

\* C4: a record with total_workloads = 0 makes check_workload_assignment
\* return false, without an exception.
C4_ZeroTotalFails ==
    ( /\ last.check = "check_workload_assignment"
      /\ HasAssignmentColumns(last.arg)
      /\ \E r \in Rows(last.arg) : r["total_workloads"] = 0 ) =>
        (last.exc = "none" /\ ~last.ret)

\* The check has failed a dataset whose only defect is a record 0 = 0 + 0.
C4_Witness ==
    /\ last.check = "check_workload_assignment"
    /\ HasAssignmentColumns(last.arg)
    /\ ~last.ret
    /\ last.exc = "none"
    /\ \E r \in Rows(last.arg) : r["total_workloads"] = 0 /\ r["workloads_new_blocks"] = 0
                                      /\ r["workloads_older_blocks"] = 0
    /\ \A r \in Rows(last.arg) : r["total_workloads"] # 0 => RecordAssigned(r)

\* |total - S/3| <= S/20 / 3, in exact arithmetic: the deviation of one total
\* from the average of the three is at most 5% of that average.
WithinFivePercent(total, S) == 20 * Abs(3 * total - S) <= S

\* C5: check_equal_distribution at the default tolerance returns true exactly
\* when each of the three cumulative totals deviates from their average by at
\* most 0.05 times the average.
C5_DistributionIffWithinTolerance ==
    (last.check = "check_equal_distribution" /\ last.exc = "none") =>
        LET a == SeriesSum(Series(last.arg, "new_blocks_atom"))
            p == SeriesSum(Series(last.arg, "new_blocks_photon"))
            s == SeriesSum(Series(last.arg, "new_blocks_spin"))
        IN  last.ret = ( /\ WithinFivePercent(a, a + p + s)
                         /\ WithinFivePercent(p, a + p + s)
                         /\ WithinFivePercent(s, a + p + s) )

\* The first day of the month after that of y-m-d.
NextMonth(v) ==
    IF v[3] < 12 THEN <<"str", v[2], v[3] + 1, 1>> ELSE <<"str", v[2] + 1, 1, 1>>

Earlier(u, v) ==
    \/ u[2] < v[2]
    \/ u[2] = v[2] /\ u[3] < v[3]
    \/ u[2] = v[2] /\ u[3] = v[3] /\ u[4] < v[4]

RECURSIVE DaysApart(_, _)
\* The days from u to v (u not after v), walking the calendar month by month.
DaysApart(u, v) ==
    IF u[2] = v[2] /\ u[3] = v[3] THEN v[4] - u[4]
    ELSE (DaysInMonth(u[2], u[3]) - u[4] + 1) + DaysApart(NextMonth(u), v)

\* The days from the earliest date of the dataset to its latest.
DaysFromFirstToLast(d) ==
    LET dates == { r["date"] : r \in Rows(d) }
        first == CHOOSE u \in dates : \A v \in dates : u = v \/ (IF u[1] = "ts" THEN u[2] < v[2] ELSE Earlier(u, v))
        final == CHOOSE u \in dates : \A v \in dates : u = v \/ (IF u[1] = "ts" THEN v[2] < u[2] ELSE Earlier(v, u))
    IN  IF first[1] = "ts" THEN final[2] - first[2] ELSE DaysApart(first, final)

\* C6, as claimed: check_date_range_six_months returns true exactly when the
\* span from the earliest to the latest date, both days counted, is in
\* [170, 190].
C6_InclusiveSpan ==
    (last.check = "check_date_range_six_months" /\ last.exc = "none") =>
        last.ret = (DaysFromFirstToLast(last.arg) + 1 \in 170..190)

\* C6, amended: check_date_range_six_months returns true exactly when the
\* latest date is 170 to 190 days after the earliest (latest minus earliest,
\* the first day not counted), whatever the order of the records; and the
\* date column then holds the parsed dates.
C6_DifferenceInDays ==
    (last.check = "check_date_range_six_months" /\ last.exc = "none") =>
        /\ last.ret = (DaysFromFirstToLast(last.arg) \in 170..190)
        /\ \A i \in 1..Len(df.rows) : df.rows[i]["date"][1] = "ts"

\* The check has passed a dataset read from the file whose first record is
\* 190 days later than its second.
C6_Witness ==
    /\ last.check = "check_date_range_six_months"
    /\ last.ret
    /\ Len(last.arg.rows) = 2
    /\ last.arg.rows[1]["date"] = <<"str", 2024, 7, 9>>
    /\ last.arg.rows[2]["date"] = <<"str", 2024, 1, 1>>

SevenColumns ==
    { "date", "new_blocks_atom", "new_blocks_photon", "new_blocks_spin", "workloads_older_blocks",
      "workloads_new_blocks", "total_daily_cost" }

BlocksOf(r) == r["new_blocks_atom"] + r["new_blocks_photon"] + r["new_blocks_spin"]

\* C8: check_blocks_leased_range stores atom + photon + spin of every record
\* as the column total_blocks_leased, leaves the other columns as they were,
\* and returns true exactly when every record's total is in [1000, 10000].
C8_BlocksLeasedRange ==
    (last.check = "check_blocks_leased_range" /\ last.exc = "none") =>
        /\ df.columns = last.arg.columns \cup {"total_blocks_leased"}
        /\ Len(df.rows) = Len(last.arg.rows)
        /\ \A i \in 1..Len(df.rows) :
              /\ df.rows[i]["total_blocks_leased"] = BlocksOf(last.arg.rows[i])
              /\ \A c \in last.arg.columns \ {"total_blocks_leased"} : df.rows[i][c] = last.arg.rows[i][c]
        /\ last.ret = (\A r \in Rows(last.arg) : BlocksOf(r) >= 1000 /\ BlocksOf(r) <= 10000)

\* The check has failed a dataset of 400/400/300 and a record of total 999.
C8_Witness ==
    /\ last.check = "check_blocks_leased_range"
    /\ ~last.ret
    /\ \E r \in Rows(last.arg) : r["new_blocks_atom"] = 400 /\ BlocksOf(r) = 1100
    /\ \E r \in Rows(last.arg) : BlocksOf(r) = 999
    /\ \E r \in Rows(df) : r["total_blocks_leased"] = 999

\* C9: on a dataset with the column total_workloads, check_workload_range
\* returns true exactly when every record's total_workloads is in
\* [1,000,000, 50,000,000].
C9_WorkloadRange ==
    (last.check = "check_workload_range" /\ "total_workloads" \in last.arg.columns) =>
        /\ last.exc = "none"
        /\ last.ret = (\A r \in Rows(last.arg) :
                           r["total_workloads"] >= 1000000 /\ r["total_workloads"] <= 50000000)
        /\ df = last.arg

\* The check has passed a dataset holding both ends of the interval.
C9_Witness ==
    /\ last.check = "check_workload_range"
    /\ last.ret
    /\ \E r \in Rows(last.arg) : r["total_workloads"] = 1000000
    /\ \E r \in Rows(last.arg) : r["total_workloads"] = 50000000

\* C10: a check called again right after itself ends as the first call did
\* (the same exception or the same value returned, the same lines printed)
\* and leaves the dataset as the first call left it.
C10_Idempotent ==
    [][ (last'.check = last.check /\ rep' = rep + 1) =>
            /\ last'.exc = last.exc
            /\ last'.ret = last.ret
            /\ last'.out = last.out
            /\ df' = df ]_vars

\* The date check has run again on the column it had parsed, and passed.
C10_Witness ==
    /\ last.check = "check_date_range_six_months"
    /\ rep = 2
    /\ last.ret
    /\ \A i \in 1..Len(last.arg.rows) : last.arg.rows[i]["date"][1] = "ts"
    /\ "total_blocks_leased" \in df.columns

=============================================================================
